---- MODULE Spec2Model ----
(***************************************************************************)
(* Typed MEM-AP (ap_v2) registers of probe-rs:                             *)
(*   probe-rs/src/architecture/arm/ap_v2/registers.rs                      *)
(*                                                                         *)
(* A u32 is represented by the set of its set bit positions (a subset of   *)
(* 0..31): `|` is union, `&` is intersection, `<<` drops the bits shifted  *)
(* past bit 31 (arithmetic modulo 2^32), `>>` drops the bits shifted below *)
(* bit 0.  u8 and u16 fields are stored as integers.                       *)
(***************************************************************************)
EXTENDS Integers, FiniteSets, Sequences, TLC

VARIABLES reg, addr, origin, raw, val, sent, out, phase, round, edits,
          ekind, code, variant, ecode, ephase

vars == <<reg, addr, origin, raw, val, sent, out, phase, round, edits,
          ekind, code, variant, ecode, ephase>>

regVars == <<reg, addr, origin, raw, val, sent, out, phase, round, edits>>
enumVars == <<ekind, code, variant, ecode, ephase>>

(***************************************************************************)
(* Bounds of the exploration.                                              *)
(***************************************************************************)
\* raw words read from the bus carry every combination of bits 0..LowBits-1
LowBits == 6
\* number of times an encoded word is read back and decoded again
MaxRounds == 1
\* number of fields a caller sets in a value it builds itself
MaxEdits == 2

(***************************************************************************)
(* u32 / u8 / u16 arithmetic.                                              *)
(***************************************************************************)
U8Max == 255

BitPos == 0..31

\* the u32 whose numeric value is n (0 <= n < 2^31)
Bits(n) == {i \in 0..30 : (n \div (2^i)) % 2 = 1}

RECURSIVE Num(_)
\* numeric value of a bit set that fits an integer field
Num(b) == IF b = {} THEN 0
          ELSE LET i == CHOOSE j \in b : TRUE IN (2^i) + Num(b \ {i})

Shl(b, k) == {i + k : i \in b} \cap BitPos
Shr(b, k) == {i - k : i \in {j \in b : j >= k}}
And(a, b) == a \cap b
Or(a, b) == a \cup b
CastU8(b) == b \cap (0..7)
CastU16(b) == b \cap (0..15)
BoolU32(f) == IF f THEN {0} ELSE {}

\* a 32-bit word written as its two 16-bit halves
Word(hi, lo) == Or(Shl(Bits(hi), 16), Bits(lo))

(***************************************************************************)
(* Field-width enumerations.                                               *)
(***************************************************************************)
DataSizeVariants == {"U8", "U16", "U32", "U64", "U128", "U256"}
AddressIncrementVariants == {"Off", "Single", "Packed"}
BaseAddrFormatVariants == {"Legacy", "ADIv5"}

\* enum DataSize discriminants (`as u8` / `as u32`)
DataSize_code(v) ==
    CASE v = "U8" -> 0
      [] v = "U16" -> 1
      [] v = "U32" -> 2
      [] v = "U64" -> 3
      [] v = "U128" -> 4
      [] v = "U256" -> 5

\* a wrong decode table: code 0b110 is taken for a transfer size
DataSize_try_from_Accepts6(value) ==
    CASE value = 0 -> "U8"
      [] value = 1 -> "U16"
      [] value = 2 -> "U32"
      [] value = 3 -> "U64"
      [] value = 4 -> "U128"
      [] value = 5 -> "U256"
      [] value = 6 -> "U256"
      [] OTHER -> "InvalidDataSizeError"

\* impl TryFrom<u8> for DataSize
DataSize_try_from(value) ==
    CASE value = 0 -> "U8"
      [] value = 1 -> "U16"
      [] value = 2 -> "U32"
      [] value = 3 -> "U64"
      [] value = 4 -> "U128"
      [] value = 5 -> "U256"
      [] OTHER -> "InvalidDataSizeError"

\* enum AddressIncrement discriminants
AddressIncrement_code(v) ==
    CASE v = "Off" -> 0
      [] v = "Single" -> 1
      [] v = "Packed" -> 2

\* a wrong decode table: code 0b11 is taken for an increment mode
AddressIncrement_from_u8_Accepts3(value) ==
    CASE value = 0 -> "Off"
      [] value = 1 -> "Single"
      [] value = 2 -> "Packed"
      [] value = 3 -> "Packed"
      [] OTHER -> "None"

\* AddressIncrement::from_u8
AddressIncrement_from_u8(value) ==
    CASE value = 0 -> "Off"
      [] value = 1 -> "Single"
      [] value = 2 -> "Packed"
      [] OTHER -> "None"

\* enum BaseAddrFormat discriminants
BaseAddrFormat_code(v) ==
    CASE v = "Legacy" -> 0
      [] v = "ADIv5" -> 1

\* the match on the Format bit inside BASE's `from`
BaseAddrFormat_match(value) ==
    CASE value = 0 -> "Legacy"
      [] value = 1 -> "ADIv5"
      [] OTHER -> "Panic"

\* the match on the present bit inside BASE's `from`
Present_match(value) ==
    CASE value = 0 -> "false"
      [] value = 1 -> "true"
      [] OTHER -> "Panic"

(***************************************************************************)
(* Results of TryFrom<u32>.                                                *)
(***************************************************************************)
NoValue == [none |-> TRUE]
NoResult == [tag |-> "None"]
Ok(v) == [tag |-> "Ok", value |-> v]
\* RegisterParseError::new(name, value)
RegisterParseError(name, value) == [tag |-> "Err", name |-> name, value |-> value]
Panic == [tag |-> "Panic"]

(***************************************************************************)
(* Register contract: ADDRESS and NAME.                                    *)
(***************************************************************************)
SingleFieldRegisters == {"TAR", "TAR2", "DRW", "BD0", "BD1", "BD2", "BD3", "MBT", "BASE2"}
Registers == {"CSW", "CFG", "BASE", "IDR"} \cup SingleFieldRegisters

\* a wrong address table: TAR2 is given the offset of TAR
ADDRESS_Tar2AtTar(r) ==
    CASE r = "CSW" -> 3328
      [] r = "TAR" -> 3332
      [] r = "TAR2" -> 3332
      [] r = "DRW" -> 3340
      [] r = "BD0" -> 3344
      [] r = "BD1" -> 3348
      [] r = "BD2" -> 3352
      [] r = "BD3" -> 3356
      [] r = "MBT" -> 3360
      [] r = "BASE2" -> 3568
      [] r = "CFG" -> 3572
      [] r = "BASE" -> 3576
      [] r = "IDR" -> 3580

\* const ADDRESS of each register type (the `address:` argument of the macro)
ADDRESS(r) ==
    CASE r = "CSW" -> 3328      \* 0xD00
      [] r = "TAR" -> 3332      \* 0xD04
      [] r = "TAR2" -> 3336     \* 0xD08
      [] r = "DRW" -> 3340      \* 0xD0C
      [] r = "BD0" -> 3344      \* 0xD10
      [] r = "BD1" -> 3348      \* 0xD14
      [] r = "BD2" -> 3352      \* 0xD18
      [] r = "BD3" -> 3356      \* 0xD1C
      [] r = "MBT" -> 3360      \* 0xD20
      [] r = "BASE2" -> 3568    \* 0xDF0
      [] r = "CFG" -> 3572      \* 0xDF4
      [] r = "BASE" -> 3576     \* 0xDF8
      [] r = "IDR" -> 3580      \* 0xDFC

\* const NAME = stringify!($name)
NAME(r) == r

(***************************************************************************)
(* Register catalog: the `from` and `to` closures.                         *)
(***************************************************************************)
\* CSW, from
CSW_from(value) ==
    LET AddrInc == AddressIncrement_from_u8(Num(CastU8(And(Shr(value, 4), Bits(3)))))
        SIZE == DataSize_try_from(Num(CastU8(And(value, Bits(7)))))
    IN  IF AddrInc = "None" THEN RegisterParseError("CSW", value)
        ELSE IF SIZE = "InvalidDataSizeError" THEN RegisterParseError("CSW", value)
        ELSE Ok([DbgSwEnable |-> And(Shr(value, 31), Bits(1)) # {},
                 Prot |-> Num(CastU8(And(Shr(value, 24), Bits(127)))),
                 SDeviceEn |-> And(Shr(value, 23), Bits(1)) # {},
                 RMEEN |-> Num(CastU8(And(Shr(value, 21), Bits(3)))),
                 _RES0 |-> Num(CastU8(And(Shr(value, 18), Bits(7)))),
                 ERRSTOP |-> And(Shr(value, 17), Bits(1)) # {},
                 ERRNPASS |-> And(Shr(value, 16), Bits(1)) # {},
                 MTE |-> And(Shr(value, 15), Bits(1)) # {},
                 Type |-> Num(CastU8(And(Shr(value, 12), Bits(7)))),
                 Mode |-> Num(CastU8(And(Shr(value, 8), Bits(15)))),
                 TrInProg |-> And(Shr(value, 7), Bits(1)) # {},
                 DeviceEn |-> And(Shr(value, 6), Bits(1)) # {},
                 AddrInc |-> AddrInc,
                 _RES1 |-> Num(CastU8(And(Shr(value, 3), Bits(1)))),
                 SIZE |-> SIZE])

\* CSW, to
CSW_to(value) ==
    Shl(BoolU32(value.DbgSwEnable), 31)
    \cup Shl(Bits(value.Prot), 24)
    \cup Shl(BoolU32(value.SDeviceEn), 23)
    \cup Shl(Bits(value.RMEEN), 21)
    \cup Shl(Bits(value._RES0), 18)
    \cup Shl(BoolU32(value.ERRSTOP), 17)
    \cup Shl(BoolU32(value.ERRNPASS), 16)
    \cup Shl(BoolU32(value.MTE), 15)
    \cup Shl(Bits(value.Type), 12)
    \cup Shl(Bits(value.Mode), 8)
    \cup Shl(BoolU32(value.TrInProg), 7)
    \cup Shl(BoolU32(value.DeviceEn), 6)
    \cup Shl(Bits(AddressIncrement_code(value.AddrInc)), 4)
    \cup Shl(Bits(value._RES1), 1)
    \cup Bits(DataSize_code(value.SIZE))

\* TAR, TAR2: from / to
Address_from(value) == Ok([address |-> value])
Address_to(value) == value.address

\* DRW, BD0..BD3, MBT: from / to
Data_from(value) == Ok([data |-> value])
Data_to(value) == value.data

\* BASE2: from / to
BASE2_from(value) == Ok([BASEADDR |-> value])
BASE2_to(value) == value.BASEADDR

\* CFG, from
CFG_from(value) ==
    Ok([LD |-> And(Shr(value, 2), Bits(1)) # {},
        LA |-> And(Shr(value, 1), Bits(1)) # {},
        BE |-> And(value, Bits(1)) # {}])

\* CFG, to
CFG_to(value) ==
    Shl(BoolU32(value.LD), 2) \cup Shl(BoolU32(value.LA), 1) \cup BoolU32(value.BE)

\* a wrong BASE decode: the address is shifted by 11 instead of 12
BASE_from_Shift11(value) ==
    LET Format == BaseAddrFormat_match(Num(CastU8(And(Shr(value, 1), Bits(1)))))
        present == Present_match(Num(CastU8(And(value, Bits(1)))))
    IN  IF Format = "Panic" \/ present = "Panic" THEN Panic
        ELSE Ok([BASEADDR |-> Shr(And(value, 12..31), 11),
                 _RES0 |-> 0,
                 Format |-> Format,
                 present |-> (present = "true")])

\* BASE, from (0xFFFF_F000 is the bits 12..31)
BASE_from(value) ==
    LET Format == BaseAddrFormat_match(Num(CastU8(And(Shr(value, 1), Bits(1)))))
        present == Present_match(Num(CastU8(And(value, Bits(1)))))
    IN  IF Format = "Panic" \/ present = "Panic" THEN Panic
        ELSE Ok([BASEADDR |-> Shr(And(value, 12..31), 12),
                 _RES0 |-> 0,
                 Format |-> Format,
                 present |-> (present = "true")])

\* BASE, to (_RES0 is not written)
BASE_to(value) ==
    Shl(value.BASEADDR, 12)
    \cup Shl(Bits(BaseAddrFormat_code(value.Format)), 1)
    \cup BoolU32(value.present)

\* a wrong IDR decode: VARIANT is read from bits [11:8]
IDR_from_VariantAt8(value) ==
    Ok([REVISION |-> Num(And(CastU8(Shr(value, 28)), Bits(15))),
        DESIGNER |-> Num(And(CastU16(Shr(value, 17)), Bits(2047))),
        CLASS |-> Num(And(CastU8(Shr(value, 13)), Bits(15))),
        VARIANT |-> Num(And(CastU8(Shr(value, 8)), Bits(15))),
        TYPE |-> Num(And(CastU8(value), Bits(15)))])

\* IDR, from (`as` binds tighter than `&`: truncate, then mask)
IDR_from(value) ==
    Ok([REVISION |-> Num(And(CastU8(Shr(value, 28)), Bits(15))),
        DESIGNER |-> Num(And(CastU16(Shr(value, 17)), Bits(2047))),
        CLASS |-> Num(And(CastU8(Shr(value, 13)), Bits(15))),
        VARIANT |-> Num(And(CastU8(Shr(value, 4)), Bits(15))),
        TYPE |-> Num(And(CastU8(value), Bits(15)))])

\* IDR, to
IDR_to(value) ==
    Shl(Bits(value.REVISION), 28)
    \cup Shl(Bits(value.DESIGNER), 17)
    \cup Shl(Bits(value.CLASS), 13)
    \cup Shl(Bits(value.VARIANT), 4)
    \cup Bits(value.TYPE)

\* impl TryFrom<u32> for $name
try_from(r, value) ==
    CASE r = "CSW" -> CSW_from(value)
      [] r \in {"TAR", "TAR2"} -> Address_from(value)
      [] r \in {"DRW", "BD0", "BD1", "BD2", "BD3", "MBT"} -> Data_from(value)
      [] r = "BASE2" -> BASE2_from(value)
      [] r = "CFG" -> CFG_from(value)
      [] r = "BASE" -> BASE_from(value)
      [] r = "IDR" -> IDR_from(value)

\* impl From<$name> for u32
from(r, value) ==
    CASE r = "CSW" -> CSW_to(value)
      [] r \in {"TAR", "TAR2"} -> Address_to(value)
      [] r \in {"DRW", "BD0", "BD1", "BD2", "BD3", "MBT"} -> Data_to(value)
      [] r = "BASE2" -> BASE2_to(value)
      [] r = "CFG" -> CFG_to(value)
      [] r = "BASE" -> BASE_to(value)
      [] r = "IDR" -> IDR_to(value)

(***************************************************************************)
(* Typed values a caller can build: the storage type of every field.       *)
(***************************************************************************)
\* the `fields:` list of each register
FieldType(r) ==
    CASE r = "CSW" -> [DbgSwEnable |-> "bool", Prot |-> "u8", SDeviceEn |-> "bool",
                       RMEEN |-> "u8", _RES0 |-> "u8", ERRSTOP |-> "bool",
                       ERRNPASS |-> "bool", MTE |-> "bool", Type |-> "u8",
                       Mode |-> "u8", TrInProg |-> "bool", DeviceEn |-> "bool",
                       AddrInc |-> "AddressIncrement", _RES1 |-> "u8",
                       SIZE |-> "DataSize"]
      [] r \in {"TAR", "TAR2"} -> [address |-> "u32"]
      [] r \in {"DRW", "BD0", "BD1", "BD2", "BD3", "MBT"} -> [data |-> "u32"]
      [] r = "BASE2" -> [BASEADDR |-> "u32"]
      [] r = "CFG" -> [LD |-> "bool", LA |-> "bool", BE |-> "bool"]
      [] r = "BASE" -> [BASEADDR |-> "u32", _RES0 |-> "u8",
                        Format |-> "BaseAddrFormat", present |-> "bool"]
      [] r = "IDR" -> [REVISION |-> "u8", DESIGNER |-> "u16", CLASS |-> "u8",
                       VARIANT |-> "u8", TYPE |-> "u8"]

\* values of each storage type that a caller assigns to a pub field
Samples(t) ==
    CASE t = "bool" -> BOOLEAN
      [] t = "u8" -> {0, 1, 5, 127, 128, U8Max}
      [] t = "u16" -> {0, 1, 571, 2047, 2048, 65535}
      [] t = "u32" -> {{}, {0}, {19}, {20}, {31}, BitPos}
      [] t = "AddressIncrement" -> AddressIncrementVariants
      [] t = "DataSize" -> DataSizeVariants
      [] t = "BaseAddrFormat" -> BaseAddrFormatVariants

(***************************************************************************)
(* Raw words read from the bus.                                            *)
(***************************************************************************)
\* bits 6..31 of the words read: 0, 0xE000_0000, 0x2477_0000, 0x2477_1F00,
\* 0x0000_1F00, 0x001C_0000, 0xFFFF_FFC0
HighPatterns ==
    { {}, Word(57344, 0), Word(9335, 0), Word(9335, 7936), Word(0, 7936),
      Word(28, 0), 6..31 }

RawValues == {low \cup high : low \in SUBSET (0..(LowBits - 1)), high \in HighPatterns}

(***************************************************************************)
(* The caller of the register types.  It either reads a word from the bus  *)
(* and decodes it, or builds a typed value itself (a struct literal: every *)
(* field zero, then the fields it sets); it encodes the value, writes the  *)
(* word and reads it back.                                                 *)
(***************************************************************************)
\* the zero of each storage type (enum variants with discriminant 0)
Zero(t) ==
    CASE t = "bool" -> FALSE
      [] t \in {"u8", "u16"} -> 0
      [] t = "u32" -> {}
      [] t = "AddressIncrement" -> "Off"
      [] t = "DataSize" -> "U8"
      [] t = "BaseAddrFormat" -> "Legacy"

\* $name { every field: zero }
ZeroValue(r) == [f \in DOMAIN FieldType(r) |-> Zero(FieldType(r)[f])]

Init ==
    /\ reg \in Registers
    /\ addr = ADDRESS(reg)
    /\ \/ /\ origin = "bus"
          /\ raw \in RawValues
          /\ val = NoResult
          /\ phase = "raw"
       \/ /\ origin = "literal"
          /\ raw = {}
          /\ val = Ok(ZeroValue(reg))
          /\ phase = "built"
    /\ sent = NoValue
    /\ out = {}
    /\ round = 0
    /\ edits = 0
    /\ ekind = "none" /\ code = 0 /\ variant = "none" /\ ecode = 0 /\ ephase = "idle"

\* $name::try_from(word): the word is the one read first, or the word that
\* was written last and is read back
Decode ==
    /\ phase \in {"raw", "encoded"}
    /\ phase = "encoded" => round < MaxRounds
    /\ LET word == IF phase = "raw" THEN raw ELSE out
       IN  /\ raw' = word
           /\ val' = try_from(reg, word)
    /\ round' = IF phase = "encoded" THEN round + 1 ELSE round
    /\ phase' = "decoded"
    /\ UNCHANGED <<reg, addr, origin, sent, out, edits>>
    /\ UNCHANGED enumVars

\* field: x in the struct literal (the fields are pub)
Edit ==
    /\ phase = "built"
    /\ edits < MaxEdits
    /\ \E f \in DOMAIN FieldType(reg) :
         \E x \in Samples(FieldType(reg)[f]) :
            /\ x # val.value[f]
            /\ val' = Ok([val.value EXCEPT ![f] = x])
    /\ edits' = edits + 1
    /\ UNCHANGED <<reg, addr, origin, raw, sent, out, phase, round>>
    /\ UNCHANGED enumVars

\* u32::from(value)
Encode ==
    /\ phase \in {"decoded", "built"}
    /\ val.tag = "Ok"
    /\ out' = from(reg, val.value)
    /\ sent' = val.value
    /\ phase' = "encoded"
    /\ UNCHANGED <<reg, addr, origin, raw, val, round, edits>>
    /\ UNCHANGED enumVars

Next == Decode \/ Edit \/ Encode

Spec == Init /\ [][Next]_vars

(***************************************************************************)
(* The caller of the enumerations: decode a numeric code, encode the       *)
(* variant back.                                                           *)
(***************************************************************************)
Enums == {"DataSize", "AddressIncrement", "BaseAddrFormat"}

\* the codes each decode can be handed: any u8 for the two public
\* conversions, the masked bit `((value >> 1) & 0x01) as u8` for the match
CodeDomain(e) ==
    CASE e = "DataSize" -> 0..U8Max
      [] e = "AddressIncrement" -> 0..U8Max
      [] e = "BaseAddrFormat" -> {Num(CastU8(And(w, Bits(1)))) : w \in {{}, {0}}}

Variants(e) ==
    CASE e = "DataSize" -> DataSizeVariants
      [] e = "AddressIncrement" -> AddressIncrementVariants
      [] e = "BaseAddrFormat" -> BaseAddrFormatVariants

EnumDecodeOf(e, c) ==
    CASE e = "DataSize" -> DataSize_try_from(c)
      [] e = "AddressIncrement" -> AddressIncrement_from_u8(c)
      [] e = "BaseAddrFormat" -> BaseAddrFormat_match(c)

EnumCodeOf(e, v) ==
    CASE e = "DataSize" -> DataSize_code(v)
      [] e = "AddressIncrement" -> AddressIncrement_code(v)
      [] e = "BaseAddrFormat" -> BaseAddrFormat_code(v)

InitEnum ==
    /\ ekind \in Enums
    /\ code \in CodeDomain(ekind)
    /\ variant = "none"
    /\ ecode = 0
    /\ ephase = "code"
    /\ reg = "CSW" /\ addr = ADDRESS("CSW") /\ origin = "none"
    /\ raw = {} /\ val = NoResult
    /\ sent = NoValue /\ out = {} /\ phase = "idle" /\ round = 0 /\ edits = 0

\* DataSize::try_from(code), AddressIncrement::from_u8(code), match code
EnumDecode ==
    /\ ephase = "code"
    /\ variant' = EnumDecodeOf(ekind, code)
    /\ ephase' = "decoded"
    /\ UNCHANGED <<ekind, code, ecode>>
    /\ UNCHANGED regVars

\* variant as u8
EnumEncode ==
    /\ ephase = "decoded"
    /\ variant \in Variants(ekind)
    /\ ecode' = EnumCodeOf(ekind, variant)
    /\ ephase' = "encoded"
    /\ UNCHANGED <<ekind, code, variant>>
    /\ UNCHANGED regVars

NextEnum == EnumDecode \/ EnumEncode

EnumSpec == InitEnum /\ [][NextEnum]_vars

(***************************************************************************)
(* The documented layout (bit positions of the fields of each register).   *)
(***************************************************************************)
\* the bit positions that belong to a field of the register's layout
FieldBits(r) ==
    CASE r = "CFG" -> 0..2
      [] r = "BASE" -> (12..31) \cup {0, 1}
      [] r = "IDR" -> (13..31) \cup (0..7)
      [] OTHER -> BitPos

\* the bit offset of every field that has a position in the layout
FieldOffset(r) ==
    CASE r = "CSW" -> [DbgSwEnable |-> 31, Prot |-> 24, SDeviceEn |-> 23,
                       RMEEN |-> 21, _RES0 |-> 18, ERRSTOP |-> 17,
                       ERRNPASS |-> 16, MTE |-> 15, Type |-> 12, Mode |-> 8,
                       TrInProg |-> 7, DeviceEn |-> 6, AddrInc |-> 4,
                       _RES1 |-> 3, SIZE |-> 0]
      [] r \in {"TAR", "TAR2"} -> [address |-> 0]
      [] r \in {"DRW", "BD0", "BD1", "BD2", "BD3", "MBT"} -> [data |-> 0]
      [] r = "BASE2" -> [BASEADDR |-> 0]
      [] r = "CFG" -> [LD |-> 2, LA |-> 1, BE |-> 0]
      [] r = "BASE" -> [BASEADDR |-> 12, Format |-> 1, present |-> 0]
      [] r = "IDR" -> [REVISION |-> 28, DESIGNER |-> 17, CLASS |-> 13,
                       VARIANT |-> 4, TYPE |-> 0]

\* the full stored integer of a field, widened to 32 bits
Stored(t, x) ==
    CASE t = "bool" -> BoolU32(x)
      [] t \in {"u8", "u16"} -> Bits(x)
      [] t = "u32" -> x
      [] t = "AddressIncrement" -> Bits(AddressIncrement_code(x))
      [] t = "DataSize" -> Bits(DataSize_code(x))
      [] t = "BaseAddrFormat" -> Bits(BaseAddrFormat_code(x))

\* OR of every field shifted to its documented offset, modulo 2^32
LayoutEncode(r, v) ==
    UNION {Shl(Stored(FieldType(r)[f], v[f]), FieldOffset(r)[f]) : f \in DOMAIN FieldOffset(r)}

\* the fields of a CSW value are within their documented widths
CSWWithinWidths(v) ==
    /\ v.Prot <= 127 /\ v.RMEEN <= 3 /\ v._RES0 <= 7
    /\ v.Type <= 7 /\ v.Mode <= 15 /\ v._RES1 <= 1

\* the offset table of the register catalog
DocumentedAddress ==
    [CSW |-> 3328, TAR |-> 3332, TAR2 |-> 3336, DRW |-> 3340, BD0 |-> 3344,
     BD1 |-> 3348, BD2 |-> 3352, BD3 |-> 3356, MBT |-> 3360, BASE2 |-> 3568,
     CFG |-> 3572, BASE |-> 3576, IDR |-> 3580]

(***************************************************************************)
(* Properties.                                                             *)
(***************************************************************************)
\* C1: a word that decodes and is encoded back unchanged is reproduced on
\* every bit position that belongs to a field of the register.
C1_RawRoundTrip ==
    (phase = "encoded" /\ (origin = "bus" \/ round >= 1))
        => And(out, FieldBits(reg)) = And(raw, FieldBits(reg))

\* C2: a typed value that is encoded and decoded again comes back equal in
\* every field (enumeration fields always hold a variant).
C2_ValueRoundTrip ==
    (phase = "decoded" /\ round >= 1)
        => (val.tag = "Ok" /\ val.value = sent)

\* C3: decode never panics, and it fails exactly for CSW words whose bits
\* [5:4] are 11 or whose bits [2:0] are 110 or 111; the error names "CSW"
\* and carries the word unmodified; every other decode yields a value.
C3_DecodeFailure ==
    phase = "decoded" =>
        /\ val.tag \in {"Ok", "Err"}
        /\ val.tag = "Err" <=>
              /\ reg = "CSW"
              /\ \/ Num(And(Shr(raw, 4), {0, 1})) = 3
                 \/ Num(And(raw, {0, 1, 2})) \in {6, 7}
        /\ val.tag = "Err" => (val.name = "CSW" /\ val.value = raw)

C3_Witness ==
    /\ phase = "decoded" /\ reg = "CSW" /\ val.tag = "Err"
    /\ Num(And(raw, {0, 1, 2})) = 6 /\ Num(And(Shr(raw, 4), {0, 1})) # 3

\* C4: encoding a CSW value whose fields are within their widths puts _RES0
\* on bits [20:18], _RES1 on bit 3 and the code of SIZE on bits [2:0].
C4_ReservedWrittenBack ==
    (phase = "encoded" /\ reg = "CSW" /\ CSWWithinWidths(sent)) =>
        /\ And(out, 18..20) = Shl(Bits(sent._RES0), 18)
        /\ (3 \in out) <=> (sent._RES1 = 1)
        /\ And(out, 0..2) = Bits(DataSize_code(sent.SIZE))

\* C5: encode is the OR of every field's full stored integer shifted left
\* by the field's bit offset, modulo 2^32, with no masking.
C5_PermissiveEncode ==
    phase = "encoded" => out = LayoutEncode(reg, sent)

\* C6: BASE decode yields BASEADDR = word >> 12 (below 2^20), Format from
\* bit 1 and present from bit 0; 0xE0000003 gives 0xE0000, ADIv5, true.
C6_BaseDecode ==
    (phase = "decoded" /\ reg = "BASE") =>
        /\ val.tag = "Ok"
        /\ val.value.BASEADDR = Shr(raw, 12)
        /\ val.value.BASEADDR \subseteq 0..19
        /\ val.value.Format = (IF 1 \in raw THEN "ADIv5" ELSE "Legacy")
        /\ val.value.present = (0 \in raw)
        /\ raw = Word(57344, 3) =>
              /\ Num(val.value.BASEADDR) = 917504
              /\ val.value.Format = "ADIv5"
              /\ val.value.present = TRUE

C6_Witness ==
    /\ phase = "decoded" /\ reg = "BASE" /\ raw = Word(57344, 3)
    /\ val.tag = "Ok" /\ Num(val.value.BASEADDR) = 917504

\* C7: IDR decode yields REVISION = v[31:28], DESIGNER = v[27:17],
\* CLASS = v[16:13], VARIANT = v[7:4], TYPE = v[3:0] and ignores bits
\* [12:8]; 0x24770011 gives 0x2, 0x23B, 0x8, 0x1, 0x1.
C7_IdrDecode ==
    (phase = "decoded" /\ reg = "IDR") =>
        /\ val.tag = "Ok"
        /\ val.value.REVISION = Num(Shr(And(raw, 28..31), 28))
        /\ val.value.DESIGNER = Num(Shr(And(raw, 17..27), 17))
        /\ val.value.CLASS = Num(Shr(And(raw, 13..16), 13))
        /\ val.value.VARIANT = Num(Shr(And(raw, 4..7), 4))
        /\ val.value.TYPE = Num(And(raw, 0..3))
        /\ \A hidden \in SUBSET (8..12) :
              try_from("IDR", (raw \ (8..12)) \cup hidden) = val
        /\ raw = Word(9335, 17) =>
              val.value = [REVISION |-> 2, DESIGNER |-> 571, CLASS |-> 8,
                           VARIANT |-> 1, TYPE |-> 1]

C7_Witness ==
    /\ phase = "decoded" /\ reg = "IDR" /\ raw = Word(9335, 7936 + 17)
    /\ val.tag = "Ok" /\ val.value.DESIGNER = 571 /\ val.value.VARIANT = 1

\* C8: DataSize decodes exactly the codes 0..5 (U8, U16, U32, U64, U128,
\* U256), AddressIncrement exactly 0..2 (Off, Single, Packed), both codes
\* of BaseAddrFormat are valid (Legacy, ADIv5); a decoded variant encodes
\* back to the code it came from.
C8_EnumTotality ==
    /\ (ephase \in {"decoded", "encoded"} /\ ekind = "DataSize") =>
          variant = (IF code <= 5
                     THEN <<"U8", "U16", "U32", "U64", "U128", "U256">>[code + 1]
                     ELSE "InvalidDataSizeError")
    /\ (ephase \in {"decoded", "encoded"} /\ ekind = "AddressIncrement") =>
          variant = (IF code <= 2
                     THEN <<"Off", "Single", "Packed">>[code + 1]
                     ELSE "None")
    /\ (ephase \in {"decoded", "encoded"} /\ ekind = "BaseAddrFormat") =>
          variant = <<"Legacy", "ADIv5">>[code + 1]
    /\ ephase = "encoded" => ecode = code

C8_Witness ==
    /\ ephase = "encoded" /\ ekind = "DataSize" /\ code = 5
    /\ variant = "U256" /\ ecode = 5

C10_NormalisationClosed ==
    /\ (phase = "decoded" /\ round >= 1 /\ origin = "bus") => val.tag = "Ok"
    /\ (phase = "encoded" /\ round >= 1 /\ origin = "bus") => out = raw

====
